---- MODULE Spec2Model ----
(***************************************************************************)
(* Model of the whale tracker's trade classification and alert delivery    *)
(* pipeline: TransactionParser.parse_transaction (src/parser.py),          *)
(* MultiChatWhaleBot.process_transaction (src/whale_bot.py), the Helius    *)
(* webhook handler (src/helius_handler.py) and the Postgres registry and   *)
(* dedup store (src/db_manager.py).                                        *)
(*                                                                         *)
(* Quantities are exact fixed-point integers, as the code's Decimal        *)
(* arithmetic is exact: native (SOL), wrapped-native and stablecoin        *)
(* amounts, and USD values, are in units of 10^-6; native transfers and    *)
(* account balance changes, which the feed gives in lamports, are in units *)
(* of 1000 lamports (= 10^-6 SOL), so that lamports / LAMPORTS_PER_SOL is  *)
(* the same number of units. Generic token amounts are in whole tokens:    *)
(* the code only compares them with zero and with one another.             *)
(***************************************************************************)
EXTENDS Integers, Sequences, FiniteSets, TLC

\* ------------------------------------------------------------------------
\* Bounds of the model
\* ------------------------------------------------------------------------
MaxThreads == 2
NumChats == 2
MaxGeneric == 2

\* ------------------------------------------------------------------------
\* Program constants
\* ------------------------------------------------------------------------
DUST_THRESHOLD_SOL == 10000
MIN_USD_VALUE == 1000000
STABLE_MIN == 1000000
FALLBACK_SOL_PRICE == 200

SOL_MINT == "SOL"
USDC_MINT == "USDC"
USDT_MINT == "USDT"

NoSig == "nosig"
NoTrade == [type |-> "None"]
NoInput == [asset |-> "None", amount |-> 0]
NoAccount == [account |-> "None", change |-> 0]

Abs(x) == IF x < 0 THEN -x ELSE x

\* ------------------------------------------------------------------------
\* TransactionParser.parse_transaction
\* ------------------------------------------------------------------------

\* The signed delta of one transfer entry for the tracked address: negative
\* when it is the sender, positive when it is the receiver (the sender test
\* comes first), and no delta when it is neither.
Involves(tr, whale) == tr.from = whale \/ tr.to = whale

TransferDelta(tr, whale) == IF tr.from = whale THEN -tr.amount ELSE tr.amount

\* A faulty variant of IsGenericMint: stablecoins are taken for generic tokens.
IsGenericMintStableToo(mint) == mint # SOL_MINT

IsGenericMint(mint) == mint \notin {SOL_MINT, USDC_MINT, USDT_MINT}

RECURSIVE SumMint(_, _, _)
SumMint(transfers, whale, mints) ==
  IF transfers = <<>> THEN 0
  ELSE LET tr == Head(transfers)
           rest == SumMint(Tail(transfers), whale, mints)
       IN IF Involves(tr, whale) /\ tr.mint \in mints
          THEN TransferDelta(tr, whale) + rest
          ELSE rest

\* whale_movements['tokens']: one entry per generic-token transfer of the
\* tracked address, in input order, each with its own signed amount.
RECURSIVE TokenEntries(_, _)
TokenEntries(transfers, whale) ==
  IF transfers = <<>> THEN <<>>
  ELSE LET tr == Head(transfers)
           rest == TokenEntries(Tail(transfers), whale)
       IN IF Involves(tr, whale) /\ IsGenericMint(tr.mint)
          THEN <<[mint |-> tr.mint, amount |-> TransferDelta(tr, whale)]>> \o rest
          ELSE rest

RECURSIVE SumNative(_, _)
SumNative(transfers, whale) ==
  IF transfers = <<>> THEN 0
  ELSE LET tr == Head(transfers)
           rest == SumNative(Tail(transfers), whale)
       IN IF tr.from = whale THEN rest - tr.amount
          ELSE IF tr.to = whale THEN rest + tr.amount
          ELSE rest

\* The native delta from the explicit token (wrapped) and native transfers.
ExplicitSol(tx, whale) ==
  SumMint(tx.tokenTransfers, whale, {SOL_MINT}) + SumNative(tx.nativeTransfers, whale)

\* The first accountData entry of the tracked address (the loop breaks at it).
RECURSIVE FirstAccount(_, _)
FirstAccount(accounts, whale) ==
  IF accounts = <<>> THEN NoAccount
  ELSE IF Head(accounts).account = whale THEN Head(accounts)
  ELSE FirstAccount(Tail(accounts), whale)

\* A faulty variant of AccountFallback: the account-level value is never adopted.
AccountFallbackNever(tx, whale, sol) == sol

\* A faulty variant of AccountFallback: the account-level value overrides
\* the explicit one whenever it clears the dust threshold.
AccountFallbackOverride(tx, whale, sol) ==
  LET acc == FirstAccount(tx.accountData, whale)
  IN IF acc # NoAccount /\ Abs(acc.change) >= DUST_THRESHOLD_SOL
     THEN acc.change
     ELSE sol

AccountFallback(tx, whale, sol) ==
  IF Abs(sol) < DUST_THRESHOLD_SOL
  THEN LET acc == FirstAccount(tx.accountData, whale)
       IN IF acc # NoAccount /\ acc.change # 0 /\ Abs(acc.change) >= DUST_THRESHOLD_SOL
          THEN acc.change
          ELSE sol
  ELSE sol

WhaleMovements(tx, whale) ==
  [sol |-> AccountFallback(tx, whale, ExplicitSol(tx, whale)),
   usdc |-> SumMint(tx.tokenTransfers, whale, {USDC_MINT}),
   usdt |-> SumMint(tx.tokenTransfers, whale, {USDT_MINT}),
   tokens |-> TokenEntries(tx.tokenTransfers, whale)]

ReceivedTokens(tokens) == SelectSeq(tokens, LAMBDA t : t.amount > 0)
SentTokens(tokens) == SelectSeq(tokens, LAMBDA t : t.amount < 0)

\* A faulty variant of MaxByAbs: among entries of equal magnitude the last wins.
RECURSIVE MaxByAbsLast(_)
MaxByAbsLast(entries) ==
  IF Len(entries) = 1 THEN entries[1]
  ELSE LET best == MaxByAbsLast(Tail(entries))
       IN IF Abs(Head(entries).amount) > Abs(best.amount) THEN Head(entries) ELSE best

\* max(entries, key=abs(amount)): the first entry of the largest magnitude.
RECURSIVE MaxByAbs(_)
MaxByAbs(entries) ==
  IF Len(entries) = 1 THEN entries[1]
  ELSE LET best == MaxByAbs(Tail(entries))
       IN IF Abs(Head(entries).amount) >= Abs(best.amount) THEN Head(entries) ELSE best

\* Faulty variants of BuyInput: the native leg is looked at before the
\* stablecoin leg; a native leg below the dust threshold is taken for the
\* payment; a native leg of either sign is taken for the payment.
BuyInputSolFirst(sol, stable) ==
  IF Abs(sol) >= DUST_THRESHOLD_SOL /\ sol < 0 THEN [asset |-> "SOL", amount |-> Abs(sol)]
  ELSE IF stable < 0 THEN [asset |-> "USDC", amount |-> Abs(stable)]
  ELSE NoInput

BuyInputNoDust(sol, stable) ==
  IF stable < -STABLE_MIN THEN [asset |-> "USDC", amount |-> Abs(stable)]
  ELSE IF sol < 0 THEN [asset |-> "SOL", amount |-> Abs(sol)]
  ELSE IF stable < 0 THEN [asset |-> "USDC", amount |-> Abs(stable)]
  ELSE NoInput

BuyInputAnySign(sol, stable) ==
  IF stable < -STABLE_MIN THEN [asset |-> "USDC", amount |-> Abs(stable)]
  ELSE IF Abs(sol) >= DUST_THRESHOLD_SOL THEN [asset |-> "SOL", amount |-> Abs(sol)]
  ELSE IF stable < 0 THEN [asset |-> "USDC", amount |-> Abs(stable)]
  ELSE NoInput

\* The paying leg of a BUY (spent: negative deltas).
BuyInput(sol, stable) ==
  IF stable < -STABLE_MIN THEN [asset |-> "USDC", amount |-> Abs(stable)]
  ELSE IF Abs(sol) >= DUST_THRESHOLD_SOL /\ sol < 0 THEN [asset |-> "SOL", amount |-> Abs(sol)]
  ELSE IF stable < 0 THEN [asset |-> "USDC", amount |-> Abs(stable)]
  ELSE NoInput

\* A faulty variant of SellInput: the native leg is looked at before the
\* stablecoin leg.
SellInputSolFirst(sol, stable) ==
  IF Abs(sol) >= DUST_THRESHOLD_SOL /\ sol > 0 THEN [asset |-> "SOL", amount |-> Abs(sol)]
  ELSE IF stable > 0 THEN [asset |-> "USDC", amount |-> Abs(stable)]
  ELSE NoInput

\* The paying leg of a SELL (received: positive deltas).
SellInput(sol, stable) ==
  IF stable > STABLE_MIN THEN [asset |-> "USDC", amount |-> Abs(stable)]
  ELSE IF Abs(sol) >= DUST_THRESHOLD_SOL /\ sol > 0 THEN [asset |-> "SOL", amount |-> Abs(sol)]
  ELSE IF stable > 0 THEN [asset |-> "USDC", amount |-> Abs(stable)]
  ELSE NoInput

\* A faulty variant of UsdValue: the native amount is not priced.
UsdValueUnpriced(input, sol_price) == input.amount

UsdValue(input, sol_price) ==
  IF input.asset = "USDC" THEN input.amount ELSE input.amount * sol_price

\* A faulty variant of TradeType: the sent tokens are looked at first.
TradeTypeSentFirst(received, sent) ==
  IF sent # <<>> THEN "SELL" ELSE IF received # <<>> THEN "BUY" ELSE "None"

TradeType(received, sent) ==
  IF received # <<>> THEN "BUY" ELSE IF sent # <<>> THEN "SELL" ELSE "None"

\* A faulty variant of FinalGate: the minimum-value filter is left out.
FinalGateDustOnly(input, usd_value) ==
  ~(input.amount < DUST_THRESHOLD_SOL /\ input.asset = "SOL")

FinalGate(input, usd_value) ==
  /\ ~(input.amount < DUST_THRESHOLD_SOL /\ input.asset = "SOL")
  /\ ~(usd_value < MIN_USD_VALUE)

Classify(tx, whale, sol_price) ==
  LET mv == WhaleMovements(tx, whale)
      received == ReceivedTokens(mv.tokens)
      sent == SentTokens(mv.tokens)
      stable == mv.usdc + mv.usdt
      type == TradeType(received, sent)
  IN IF mv.tokens = <<>> \/ type = "None" THEN NoTrade
     ELSE LET output == IF type = "BUY" THEN MaxByAbs(received) ELSE MaxByAbs(sent)
              input == IF type = "BUY" THEN BuyInput(mv.sol, stable)
                       ELSE SellInput(mv.sol, stable)
          IN IF input = NoInput THEN NoTrade
             ELSE LET usd == UsdValue(input, sol_price)
                  IN IF ~FinalGate(input, usd) THEN NoTrade
                     ELSE [type |-> type,
                           token_mint |-> output.mint,
                           token_amount |-> Abs(output.amount),
                           input_asset |-> input.asset,
                           input_amount |-> input.amount,
                           sol_price |-> sol_price,
                           usd_value |-> usd,
                           whale_address |-> whale,
                           signature |-> tx.signature]

\* A faulty variant of parse_transaction: the early rejections are left out.
ParseNoEarlyReject(tx, whale, sol_price) == Classify(tx, whale, sol_price)

parse_transaction(tx, whale, sol_price) ==
  IF tx.signature = NoSig THEN NoTrade
  ELSE IF tx.err THEN NoTrade
  ELSE IF tx.tokenTransfers = <<>> THEN NoTrade
  ELSE Classify(tx, whale, sol_price)

\* ------------------------------------------------------------------------
\* The modelled world: chats, addresses, threads, the upstream feed
\* ------------------------------------------------------------------------
Threads == 1..MaxThreads
Chats == 1..NumChats

\* W is the wallet the chats track; X is a counterparty (a pool).
W == "W"
X == "X"
Tracked == {W}

\* The reference prices the oracle may hand to one classification.
Prices == {50, 150, FALLBACK_SOL_PRICE}

Transfer(from, to, mint, amount) ==
  [from |-> from, to |-> to, mint |-> mint, amount |-> amount]

Native(from, to, amount) == [from |-> from, to |-> to, amount |-> amount]

Event(sig, err, tokens, natives, accounts) ==
  [signature |-> sig, err |-> err, feePayer |-> W, tokenTransfers |-> tokens,
   nativeTransfers |-> natives, accountData |-> accounts, accountKeys |-> <<>>]

\* The transactions the upstream pushes in the delivery specification: a buy
\* paid in stablecoin, a sell paid in native coin, and a plain stablecoin
\* transfer (no generic token).
EvBuy ==
  Event("s1", FALSE,
        <<Transfer(X, W, "T1", 500), Transfer(W, X, USDC_MINT, 1200000000)>>,
        <<>>, <<>>)

EvSell ==
  Event("s2", FALSE, <<Transfer(W, X, "T1", 2000)>>,
        <<Native(X, W, 2500000)>>, <<>>)

EvPay ==
  Event("s3", FALSE, <<Transfer(W, X, USDC_MINT, 1200000000)>>, <<>>, <<>>)

Feed == {EvBuy, EvSell, EvPay}

DeliveryFeed == {EvBuy, EvPay}

NoEvent == Event(NoSig, FALSE, <<>>, <<>>, <<>>)

\* signature = tx_data.get('signature', 'unknown')
Signature(tx) == IF tx.signature = NoSig THEN "unknown" ELSE tx.signature

RECURSIVE Perms(_)
Perms(S) ==
  IF S = {} THEN {<<>>}
  ELSE UNION {{<<x>> \o p : p \in Perms(S \ {x})} : x \in S}

Range(f) == {f[i] : i \in DOMAIN f}

VARIABLES
  whales,       \* whales table: [chat][address] -> "none" | "active" | "paused"
  alerts,       \* chat_settings.alerts_enabled, per chat
  processed,    \* processed_transactions: the set of <<chat, signature>> markers
  knownWhales,  \* HeliusWebhookHandler.known_whales
  permits,      \* free slots of rate_limiter
  pc,           \* per thread: where its process_transaction invocation stands
  tx,           \* per thread: tx_data
  wa,           \* per thread: whale_address
  entries,      \* per thread: whale_entries, the chats of the bindings read
  idx,          \* per thread: position of the loop in whale_entries
  trade,        \* per thread: the parsed trade
  checked,      \* per thread: chats whose dedup marker this invocation has read
  report,       \* per thread: per-chat outcome of this invocation
  abort,        \* per thread: the store call that raised, or "none"
  doneBefore,   \* per thread: the invocations finished when this one started
  solPrice,     \* the reference price _get_sol_price returns
  owed,         \* history: <<chat, signature>> alerts a received push called for
  clock,        \* time.time(), in seconds
  priceCache,   \* TransactionParser._sol_price_cache
  priceStamp,   \* TransactionParser._sol_price_timestamp
  opc,          \* per caller of _get_sol_price: where its call stands
  onow,         \* per caller of _get_sol_price: its local now
  tokenCache,   \* TransactionParser._token_cache, per mint
  metaRet,      \* the metadata the last _get_token_metadata call returned
  senders       \* invocations at rate_limiter, counted by where they stand

vars == <<whales, alerts, processed, knownWhales, permits, pc, tx, wa, entries,
          idx, trade, checked, report, abort, doneBefore, solPrice, owed,
          clock, priceCache, priceStamp, opc, onow, tokenCache, metaRet,
          senders>>

db == <<whales, alerts, processed>>
locals == <<tx, wa, entries, idx, trade, checked, report, abort, doneBefore>>
history == <<solPrice, owed>>
price == <<priceCache, priceStamp, opc, onow>>
meta == <<tokenCache, metaRet>>
caches == <<clock, price, meta>>

RATE_LIMIT == 20

\* No invocation stands at the rate limiter.
NoSenders == [waiting |-> 0, passed |-> 0, flying |-> 0]

NoReport == [c \in Chats |-> "-"]

\* The outcomes of report that record a send call, and a successful one.
Attempted == {"sending", "failed", "sent", "written"}
Succeeded == {"sent", "written"}

\* Send calls made, and successful sends, for a chat and a signature, over
\* all invocations.
Tried(c, s) ==
  Cardinality({t \in Threads : Signature(tx[t]) = s /\ report[t][c] \in Attempted})

Sent(c, s) ==
  Cardinality({t \in Threads : Signature(tx[t]) = s /\ report[t][c] \in Succeeded})

\* ------------------------------------------------------------------------
\* TransactionParser._get_sol_price and _get_token_metadata: the caches
\* ------------------------------------------------------------------------
MaxCallers == 2
TickStep == 15
MaxClock == 60
MetaStep == 150
MaxMetaClock == 600

PRICE_TTL == 30
META_TTL == 300

\* _sol_price_cache = None
NoPrice == -1

Callers == 1..MaxCallers

\* The prices the external source may answer with.
SourcePrices == {0, 50, 150}

\* Python's truth value of the cached price: None and 0.0 are false.
Truthy(v) == v # NoPrice /\ v # 0

\* if _sol_price_cache and (now - _sol_price_timestamp) < 30
CacheHit(cache, stamp, now) == Truthy(cache) /\ now - stamp < PRICE_TTL

\* return _sol_price_cache or 200.0
PriceOnFailure(cache) == IF Truthy(cache) THEN cache ELSE FALLBACK_SOL_PRICE

\* Strings are sequences of characters; a JSON null is Null.
Str(chars) == [null |-> FALSE, s |-> chars]
Null == [null |-> TRUE, s |-> <<>>]

UNKNOWN == <<"U", "N", "K", "N", "O", "W", "N">>
PEPE == <<"P", "E", "P", "E">>

\* Two mint addresses, a long one and one shorter than four characters.
LongMint == <<"A", "b", "c", "d", "e", "f", "g", "h", "i", "j">>
ShortMint == <<"T", "1">>
MetaMints == {LongMint, ShortMint}

Min(a, b) == IF a < b THEN a ELSE b
Max(a, b) == IF a > b THEN a ELSE b

\* f"{mint[:4]}...{mint[-4:]}"
Abbrev(mint) ==
  SubSeq(mint, 1, Min(4, Len(mint)))
    \o <<".", ".", ".">>
    \o SubSeq(mint, Max(1, Len(mint) - 3), Len(mint))

\* _token_cache has no entry for the mint; nothing returned yet.
NoMeta == [symbol |-> Null, cached_at |-> -1]

\* What the metadata source may answer: the request or the decoding raises;
\* no pairs; a first pair whose token has no symbol key, a null symbol, an
\* empty one, a real one, or the text UNKNOWN, with the market cap readable
\* or not (float() raises after the symbol is taken).
SourceSymbols == {Null, Str(<<>>), Str(PEPE), Str(UNKNOWN)}

Responses ==
  {[kind |-> "error"], [kind |-> "nopairs"], [kind |-> "nokey"]}
    \cup {[kind |-> "pair", symbol |-> v, cap_ok |-> b] :
            v \in SourceSymbols, b \in BOOLEAN}

\* result['symbol'] before the final replacement: 'UNKNOWN' unless a pair
\* was read, then token_info.get('symbol', 'UNKNOWN').
SymbolFromSource(resp) ==
  IF resp.kind = "pair" THEN resp.symbol ELSE Str(UNKNOWN)

\* if result['symbol'] == 'UNKNOWN': result['symbol'] = abbreviation
FinalSymbol(symbol, mint) ==
  IF symbol = Str(UNKNOWN) THEN Str(Abbrev(mint)) ELSE symbol

\* The cached entry is younger than the metadata TTL.
MetaHit(cached, now) == cached # NoMeta /\ cached.cached_at > now - META_TTL

InitCaches ==
  /\ clock = 0
  /\ priceCache = NoPrice
  /\ priceStamp = 0
  /\ opc = [k \in Callers |-> "idle"]
  /\ onow = [k \in Callers |-> 0]
  /\ tokenCache = [m \in MetaMints |-> NoMeta]
  /\ metaRet = NoMeta

InitThreads ==
  /\ pc = [t \in Threads |-> "idle"]
  /\ tx = [t \in Threads |-> NoEvent]
  /\ wa = [t \in Threads |-> X]
  /\ entries = [t \in Threads |-> <<>>]
  /\ idx = [t \in Threads |-> 0]
  /\ trade = [t \in Threads |-> NoTrade]
  /\ checked = [t \in Threads |-> {}]
  /\ report = [t \in Threads |-> NoReport]
  /\ abort = [t \in Threads |-> "none"]
  /\ doneBefore = [t \in Threads |-> {}]

\* The state after construction: every chat has its settings row with alerts
\* enabled and tracks W; no marker is stored; the handler is built by
\* run_webhook_server without known_whales, so the set is empty.
Init ==
  /\ InitCaches
  /\ senders = NoSenders
  /\ whales = [c \in Chats |-> [a \in Tracked |-> "active"]]
  /\ alerts = [c \in Chats |-> TRUE]
  /\ processed = {}
  /\ knownWhales = {}
  /\ permits = RATE_LIMIT
  /\ InitThreads
  /\ solPrice = FALLBACK_SOL_PRICE
  /\ owed = {}

\* ------------------------------------------------------------------------
\* HeliusWebhookHandler
\* ------------------------------------------------------------------------

\* all_addresses of _extract_whale_address.
AllAddresses(t) ==
  {t.feePayer}
    \cup {a.account : a \in Range(t.accountData)}
    \cup {n.from : n \in Range(t.nativeTransfers)}
    \cup {n.to : n \in Range(t.nativeTransfers)}
    \cup {r.from : r \in Range(t.tokenTransfers)}
    \cup {r.to : r \in Range(t.tokenTransfers)}
    \cup Range(t.accountKeys)

\* A faulty variant of ExtractWhaleAddress: any address of the transaction is
\* returned, known or not.
ExtractAnyAddress(t, known) == AllAddresses(t)

\* The addresses _extract_whale_address may return: any known whale among
\* the transaction's addresses (the set is iterated in no fixed order); the
\* empty set stands for None.
ExtractWhaleAddress(t, known) == AllAddresses(t) \cap known

\* The alerts a push calls for: the chats that track, with an active binding
\* and alerts enabled, an address of the transaction whose swap qualifies at
\* every reference price.
Owed(ev) ==
  {<<c, Signature(ev)>> : c \in
     {c \in Chats : \E a \in AllAddresses(ev) \cap Tracked :
        /\ whales[c][a] = "active"
        /\ alerts[c]
        /\ \A p \in Prices : parse_transaction(ev, a, p) # NoTrade}}

Idle == {t \in Threads : pc[t] = "idle"}

FirstIdle == CHOOSE t \in Idle : \A u \in Idle : t <= u

\* thread.start() of webhook(): the thread runs process_transaction(tx, w).
StartThread(t, ev, a) ==
  /\ pc' = [pc EXCEPT ![t] = "lookup"]
  /\ tx' = [tx EXCEPT ![t] = ev]
  /\ wa' = [wa EXCEPT ![t] = a]
  /\ doneBefore' = [doneBefore EXCEPT ![t] = {u \in Threads : pc[u] = "done"}]
  /\ UNCHANGED <<entries, idx, trade, checked, report, abort>>

\* webhook(): one pushed transaction. It is handed to a new thread when
\* _extract_whale_address matches a known whale, and dropped otherwise.
Webhook(ev) ==
  /\ UNCHANGED <<caches, senders>>
  /\ IF ExtractWhaleAddress(ev, knownWhales) = {}
     THEN UNCHANGED <<pc, locals>>
     ELSE /\ Idle # {}
          /\ \E a \in ExtractWhaleAddress(ev, knownWhales) : StartThread(FirstIdle, ev, a)
  /\ UNCHANGED <<db, knownWhales, permits, solPrice>>

\* update_known_whales(): the handler's setter. No code of the repository
\* calls it; it is the only way the set becomes non-empty.
UpdateKnownWhales(S) ==
  /\ UNCHANGED <<caches, senders>>
  /\ S # knownWhales
  /\ knownWhales' = S
  /\ UNCHANGED <<db, permits, pc, locals, history>>

\* ------------------------------------------------------------------------
\* MultiChatWhaleBot.process_transaction, one step per store call, parse
\* and send
\* ------------------------------------------------------------------------

\* A faulty variant of OuterExcept: the error is raised to the caller.
OuterExceptReraise(step) == "raised"

\* except Exception: the error is logged and process_transaction returns.
OuterExcept(step) == "done"

\* A store call raised (get_connection re-raises): the outer except of
\* process_transaction logs it and the invocation ends.
Abort(t, step) ==
  /\ pc' = [pc EXCEPT ![t] = OuterExcept(step)]
  /\ abort' = [abort EXCEPT ![t] = step]

\* The chat of the binding the loop is at.
Chat(t) == entries[t][idx[t]]

\* The loop moves to the next binding, or the invocation ends.
NextBinding(t) == IF idx[t] >= Len(entries[t]) THEN "done" ELSE "check"

Continue(t) ==
  /\ pc' = [pc EXCEPT ![t] = NextBinding(t)]
  /\ idx' = [idx EXCEPT ![t] = idx[t] + 1]

\* get_whale_by_address: the active bindings of the address, in the order
\* the query returns them (no ORDER BY: any order).
ActiveBindings(a) == {c \in Chats : whales[c][a] = "active"}

\* A faulty variant of WhaleEntries: the query returns every binding twice,
\* as if a chat could hold two rows for one address.
WhaleEntriesRepeated(a) == {es \o es : es \in Perms(ActiveBindings(a))}

\* The lists get_whale_by_address may return: UNIQUE(chat_id, address)
\* leaves at most one row per chat for the address.
WhaleEntries(a) == Perms(ActiveBindings(a))

GetWhaleByAddress(t) ==
  /\ UNCHANGED <<caches, senders>>
  /\ pc[t] = "lookup"
  /\ \E ok \in BOOLEAN :
       IF ok
       THEN \E es \in WhaleEntries(wa[t]) :
              /\ entries' = [entries EXCEPT ![t] = es]
              /\ pc' = [pc EXCEPT ![t] = IF es = <<>> THEN "done" ELSE "parse"]
              /\ UNCHANGED abort
       ELSE Abort(t, "lookup") /\ UNCHANGED entries
  /\ UNCHANGED <<db, knownWhales, permits, tx, wa, idx, trade, checked, report,
                 doneBefore, history>>

\* trade = parser.parse_transaction(tx_data, whale_address); no trade: return.
Parse(t) ==
  /\ UNCHANGED <<caches, senders>>
  /\ pc[t] = "parse"
  /\ LET tr == parse_transaction(tx[t], wa[t], solPrice)
     IN /\ trade' = [trade EXCEPT ![t] = tr]
        /\ pc' = [pc EXCEPT ![t] = IF tr = NoTrade THEN "done" ELSE "check"]
        /\ idx' = [idx EXCEPT ![t] = 1]
  /\ UNCHANGED <<db, knownWhales, permits, tx, wa, entries, checked, report, abort,
                 doneBefore, history>>

\* Faulty variants of is_tx_processed: the marker is never found; the marker
\* is looked up by signature alone.
NeverProcessed(c, s) == FALSE

ProcessedForAnyChat(c, s) == \E d \in Chats : <<d, s>> \in processed

\* is_tx_processed(chat_id, signature)
is_tx_processed(c, s) == <<c, s>> \in processed

IsTxProcessed(t) ==
  /\ UNCHANGED <<caches, senders>>
  /\ pc[t] = "check"
  /\ \E ok \in BOOLEAN :
       IF ok
       THEN IF is_tx_processed(Chat(t), Signature(tx[t]))
            THEN /\ report' = [report EXCEPT ![t][Chat(t)] = "marked"]
                 /\ Continue(t)
                 /\ UNCHANGED <<checked, abort>>
            ELSE /\ checked' = [checked EXCEPT ![t] = @ \cup {Chat(t)}]
                 /\ pc' = [pc EXCEPT ![t] = "settings"]
                 /\ UNCHANGED <<report, idx, abort>>
       ELSE Abort(t, "check") /\ UNCHANGED <<checked, report, idx>>
  /\ UNCHANGED <<db, knownWhales, permits, tx, wa, entries, trade, doneBefore, history>>

\* A faulty variant of Skipped: the alerts setting is not looked at.
SkippedNever(c) == FALSE

\* not settings['alerts_enabled'] or not whale_entry['active']: the binding
\* was read with active = TRUE, so the setting decides.
Skipped(c) == ~alerts[c]

GetSettings(t) ==
  /\ UNCHANGED <<caches, senders>>
  /\ pc[t] = "settings"
  /\ \E ok \in BOOLEAN :
       IF ok
       THEN IF Skipped(Chat(t))
            THEN /\ report' = [report EXCEPT ![t][Chat(t)] = "off"]
                 /\ Continue(t)
                 /\ UNCHANGED abort
            ELSE /\ pc' = [pc EXCEPT ![t] = "send"]
                 /\ UNCHANGED <<report, idx, abort>>
       ELSE Abort(t, "settings") /\ UNCHANGED <<report, idx>>
  /\ UNCHANGED <<db, knownWhales, permits, tx, wa, entries, trade, checked,
                 doneBefore, history>>

\* async with self.rate_limiter: a slot is taken and send_message is called.
BeginSend(t) ==
  /\ UNCHANGED <<caches, senders>>
  /\ pc[t] = "send"
  /\ permits > 0
  /\ permits' = permits - 1
  /\ pc' = [pc EXCEPT ![t] = "sending"]
  /\ report' = [report EXCEPT ![t][Chat(t)] = "sending"]
  /\ UNCHANGED <<db, knownWhales, tx, wa, entries, idx, trade, checked, abort,
                 doneBefore, history>>

\* Faulty variants of AfterSend: the marker is written after a failed send
\* too; the marker write is skipped; a failed send ends the loop.
AfterSendAlwaysMark(t, ok) == "mark"

AfterSendNeverMark(t, ok) == NextBinding(t)

AfterSendBreak(t, ok) == IF ok THEN "mark" ELSE "done"

\* Where the loop goes when send_message returns (ok) or raises
\* TelegramError: to the marker write, or on to the next binding.
AfterSend(t, ok) == IF ok THEN "mark" ELSE NextBinding(t)

\* A faulty variant of Released: a send that raises keeps its slot.
ReleasedOnSuccess(ok) == IF ok THEN 1 ELSE 0

\* The slots __aexit__ of `async with` gives back when the block is left,
\* by falling through (ok) or by the continue of the except clause.
Released(ok) == 1

\* send_message ends; the slot is released either way.
EndSend(t) ==
  /\ UNCHANGED <<caches, senders>>
  /\ pc[t] = "sending"
  /\ \E ok \in BOOLEAN :
       /\ permits' = permits + Released(ok)
       /\ pc' = [pc EXCEPT ![t] = AfterSend(t, ok)]
       /\ idx' = [idx EXCEPT ![t] = IF AfterSend(t, ok) = "mark" THEN @ ELSE @ + 1]
       /\ report' = [report EXCEPT ![t][Chat(t)] = IF ok THEN "sent" ELSE "failed"]
  /\ UNCHANGED <<db, knownWhales, tx, wa, entries, trade, checked, abort, doneBefore,
                 history>>

\* mark_tx_processed(chat_id, signature): the insert; a duplicate
\* (IntegrityError) is swallowed and leaves the marker as it is; any other
\* store error is raised.
MarkTxProcessed(t) ==
  /\ UNCHANGED <<caches, senders>>
  /\ pc[t] = "mark"
  /\ \E ok \in BOOLEAN :
       IF ok
       THEN /\ processed' = processed \cup {<<Chat(t), Signature(tx[t])>>}
            /\ report' = [report EXCEPT ![t][Chat(t)] =
                            IF report[t][Chat(t)] = "sent" THEN "written" ELSE @]
            /\ Continue(t)
            /\ UNCHANGED abort
       ELSE Abort(t, "mark") /\ UNCHANGED <<processed, report, idx>>
  /\ UNCHANGED <<whales, alerts, knownWhales, permits, tx, wa, entries, trade, checked,
                 doneBefore, history>>

\* ------------------------------------------------------------------------
\* Registry and settings commands (DatabaseManager)
\* ------------------------------------------------------------------------

\* add_whale: inserted active unless the chat already has the address.
AddWhale(c, a) ==
  /\ UNCHANGED <<caches, senders>>
  /\ whales[c][a] = "none"
  /\ whales' = [whales EXCEPT ![c][a] = "active"]
  /\ UNCHANGED <<alerts, processed, knownWhales, permits, pc, locals, history>>

\* remove_whale
RemoveWhale(c, a) ==
  /\ UNCHANGED <<caches, senders>>
  /\ whales[c][a] # "none"
  /\ whales' = [whales EXCEPT ![c][a] = "none"]
  /\ UNCHANGED <<alerts, processed, knownWhales, permits, pc, locals, history>>

\* set_whale_active: pause or resume one whale of the chat.
SetWhaleActive(c, a, active) ==
  /\ UNCHANGED <<caches, senders>>
  /\ whales[c][a] = (IF active THEN "paused" ELSE "active")
  /\ whales' = [whales EXCEPT ![c][a] = IF active THEN "active" ELSE "paused"]
  /\ UNCHANGED <<alerts, processed, knownWhales, permits, pc, locals, history>>

\* set_alerts_enabled
SetAlertsEnabled(c, enabled) ==
  /\ UNCHANGED <<caches, senders>>
  /\ alerts[c] # enabled
  /\ alerts' = [alerts EXCEPT ![c] = enabled]
  /\ UNCHANGED <<whales, processed, knownWhales, permits, pc, locals, history>>

\* A faulty variant of SetAllActive: the update is not restricted to the
\* chat.
SetAllActiveEveryChat(table, c, active) ==
  [d \in Chats |->
     [a \in Tracked |->
        IF table[d][a] = "none" THEN "none"
        ELSE IF active THEN "active" ELSE "paused"]]

\* UPDATE whales SET active = ... WHERE chat_id = c: every binding of the
\* chat, and of no other chat.
SetAllActive(table, c, active) ==
  [table EXCEPT ![c] =
     [a \in Tracked |->
        IF table[c][a] = "none" THEN "none"
        ELSE IF active THEN "active" ELSE "paused"]]

\* pause_all_whales
PauseAll(c) ==
  /\ UNCHANGED <<caches, senders>>
  /\ whales' = SetAllActive(whales, c, FALSE)
  /\ UNCHANGED <<alerts, processed, knownWhales, permits, pc, locals, history>>

\* resume_all_whales
ResumeAll(c) ==
  /\ UNCHANGED <<caches, senders>>
  /\ whales' = SetAllActive(whales, c, TRUE)
  /\ UNCHANGED <<alerts, processed, knownWhales, permits, pc, locals, history>>

\* The commands that pause and resume: a binding, or a chat's alerts.
Toggle ==
  \E c \in Chats :
    \/ \E a \in Tracked, b \in BOOLEAN : SetWhaleActive(c, a, b)
    \/ \E b \in BOOLEAN : SetAlertsEnabled(c, b)

\* The commands that add and remove bindings.
Registry ==
  \E c \in Chats, a \in Tracked : AddWhale(c, a) \/ RemoveWhale(c, a)

\* A push arrives at the webhook.
Receive(ev) == Webhook(ev) /\ UNCHANGED owed

\* A push arrives at the webhook; the alerts it calls for are recorded.
ReceiveOwed(ev) == Webhook(ev) /\ owed' = owed \cup Owed(ev)

Step(t) ==
  \/ GetWhaleByAddress(t)
  \/ Parse(t)
  \/ IsTxProcessed(t)
  \/ GetSettings(t)
  \/ BeginSend(t)
  \/ EndSend(t)
  \/ MarkTxProcessed(t)

\* The delivery specification: pushes are dispatched to threads that run
\* process_transaction concurrently, while chats pause and resume.
Next ==
  \/ \E ev \in DeliveryFeed : Receive(ev)
  \/ \E S \in SUBSET Tracked : UpdateKnownWhales(S)
  \/ \E t \in Threads : Step(t)
  \/ Toggle

Spec == Init /\ [][Next]_vars

\* A push arrives when no invocation is running.
ReceiveInTurn(ev) ==
  /\ \A t \in Threads : pc[t] \in {"idle", "done"}
  /\ Receive(ev)

\* Deliveries of one buy, one after the other, with every registry and
\* settings command.
NextChats ==
  \/ ReceiveInTurn(EvBuy)
  \/ \E S \in SUBSET Tracked : UpdateKnownWhales(S)
  \/ \E t \in Threads : Step(t)
  \/ Toggle
  \/ Registry
  \/ \E c \in Chats : PauseAll(c)
  \/ \E c \in Chats : ResumeAll(c)

SpecChats == Init /\ [][NextChats]_vars

\* The program as main() wires it: run_webhook_server builds the handler
\* without known_whales and nothing calls update_known_whales, so no push is
\* ever handed to process_transaction and no thread step is ever enabled.
NextWired ==
  \/ \E ev \in Feed : ReceiveOwed(ev)
  \/ Toggle
  \/ Registry

\* The threads the handler starts do run: weak fairness of their steps.
SpecWired == Init /\ [][NextWired]_vars /\ WF_vars(\E t \in Threads : Step(t))

\* ------------------------------------------------------------------------
\* The classification specification: one invocation, about to parse a raw
\* event drawn from a family that covers the parser's branches
\* ------------------------------------------------------------------------
Y == "Y"

\* Generic-token transfer entries: received by W and sent by W, of two
\* mints, with equal and with different sizes; a zero-amount entry; an
\* entry between other accounts.
GenericEntries ==
  {Transfer(X, W, "T1", 500), Transfer(X, W, "T2", 500), Transfer(X, W, "T2", 2000),
   Transfer(W, X, "T1", 2000), Transfer(W, X, "T2", 2000), Transfer(W, X, "T1", 500),
   Transfer(X, W, "T1", 0), Transfer(X, Y, "T1", 500)}

SeqsUpTo(S, n) == UNION {[1..k -> S] : k \in 0..n}

\* Stablecoin legs: nothing; 1200, 1 and 0.5 spent; 0.5 and 1200 received;
\* 0.5 + 0.6 over two stablecoins, spent and received; 1200 spent in one
\* and 0.6 received in the other.
StableLegs ==
  {<<>>,
   <<Transfer(W, X, USDC_MINT, 1200000000)>>,
   <<Transfer(W, X, USDC_MINT, 1000000)>>,
   <<Transfer(W, X, USDC_MINT, 500000)>>,
   <<Transfer(X, W, USDC_MINT, 500000)>>,
   <<Transfer(X, W, USDC_MINT, 1200000000)>>,
   <<Transfer(W, X, USDC_MINT, 500000), Transfer(W, X, USDT_MINT, 600000)>>,
   <<Transfer(X, W, USDC_MINT, 500000), Transfer(X, W, USDT_MINT, 600000)>>,
   <<Transfer(W, X, USDC_MINT, 1200000000), Transfer(X, W, USDT_MINT, 600000)>>}

\* Native legs, as wrapped-native token transfers and native transfers:
\* nothing; a fee of 0.000005; 0.003, 0.01, 2.5 spent; 2.5 received; 0.003 wrapped
\* spent; 0.003 wrapped plus 0.007 native spent.
NativeLegs ==
  {[wrapped |-> <<>>, native |-> <<>>],
   [wrapped |-> <<>>, native |-> <<Native(W, X, 5)>>],
   [wrapped |-> <<>>, native |-> <<Native(W, X, 3000)>>],
   [wrapped |-> <<>>, native |-> <<Native(W, X, 10000)>>],
   [wrapped |-> <<>>, native |-> <<Native(W, X, 2500000)>>],
   [wrapped |-> <<>>, native |-> <<Native(X, W, 2500000)>>],
   [wrapped |-> <<Transfer(W, X, SOL_MINT, 3000)>>, native |-> <<>>],
   [wrapped |-> <<Transfer(W, X, SOL_MINT, 3000)>>, native |-> <<Native(W, X, 7000)>>]}

Account(account, change) == [account |-> account, change |-> change]

\* accountData: nothing; a fee-only change; 3.1 spent; 3.1 received; a
\* fee-only entry of W ahead of a second entry of W.
AccountLegs ==
  {<<>>,
   <<Account(X, 2500000), Account(W, -5)>>,
   <<Account(X, 3100000), Account(W, -3100000)>>,
   <<Account(W, 3100000)>>,
   <<Account(W, -5), Account(W, -3100000)>>}

\* Successful transactions with a signature, over all the legs above.
GoodEvents ==
  {Event("s1", FALSE, st \o n.wrapped \o g, n.native, ac) :
     st \in StableLegs, n \in NativeLegs,
     g \in SeqsUpTo(GenericEntries, MaxGeneric), ac \in AccountLegs}

\* The transactions of the feed as failed ones, and without signature.
BadEvents ==
  {[ev EXCEPT !.err = TRUE] : ev \in Feed}
    \cup {[ev EXCEPT !.signature = NoSig] : ev \in Feed}

\* A buy of 1,000,000 tokens paid with 2.5 native coins.
EvBuyNative ==
  Event("s1", FALSE, <<Transfer(X, W, "T1", 1000000)>>, <<Native(W, X, 2500000)>>, <<>>)

ParseEvents == GoodEvents \cup BadEvents \cup {EvBuyNative}

InitParse ==
  /\ InitCaches
  /\ senders = NoSenders
  /\ whales = [c \in Chats |-> [a \in Tracked |-> "active"]]
  /\ alerts = [c \in Chats |-> TRUE]
  /\ processed = {}
  /\ knownWhales = {W}
  /\ permits = RATE_LIMIT
  /\ pc = [t \in Threads |-> IF t = 1 THEN "parse" ELSE "idle"]
  /\ \E ev \in ParseEvents : tx = [t \in Threads |-> IF t = 1 THEN ev ELSE NoEvent]
  /\ wa = [t \in Threads |-> IF t = 1 THEN W ELSE X]
  /\ entries = [t \in Threads |-> IF t = 1 THEN [c \in Chats |-> c] ELSE <<>>]
  /\ idx = [t \in Threads |-> 0]
  /\ trade = [t \in Threads |-> NoTrade]
  /\ checked = [t \in Threads |-> {}]
  /\ report = [t \in Threads |-> NoReport]
  /\ abort = [t \in Threads |-> "none"]
  /\ doneBefore = [t \in Threads |-> {}]
  /\ solPrice \in Prices
  /\ owed = {}

NextParse == \E t \in Threads : Parse(t)

SpecParse == InitParse /\ [][NextParse]_vars

\* ------------------------------------------------------------------------
\* The price oracle (SpecPrice) and the metadata resolver (SpecMeta)
\* ------------------------------------------------------------------------
others == <<db, knownWhales, permits, pc, locals, owed, senders>>

\* _get_sol_price is called: now is read; a fresh cached value is returned,
\* otherwise the request to the price source is sent.
BeginPrice(k) ==
  /\ opc[k] = "idle"
  /\ IF CacheHit(priceCache, priceStamp, clock)
     THEN /\ opc' = [opc EXCEPT ![k] = "returned"]
          /\ solPrice' = priceCache
          /\ UNCHANGED onow
     ELSE /\ opc' = [opc EXCEPT ![k] = "fetching"]
          /\ onow' = [onow EXCEPT ![k] = clock]
          /\ UNCHANGED solPrice
  /\ UNCHANGED <<priceCache, priceStamp, clock, meta, others>>

\* The request ends with a price: it is cached with the call's now and
\* returned.
FetchOk(k, r) ==
  /\ opc[k] = "fetching"
  /\ priceCache' = r
  /\ priceStamp' = onow[k]
  /\ solPrice' = r
  /\ opc' = [opc EXCEPT ![k] = "returned"]
  /\ UNCHANGED <<onow, clock, meta, others>>

\* The request or the decoding of its answer raises: the call returns the
\* cached value or the fallback constant.
FetchFail(k) ==
  /\ opc[k] = "fetching"
  /\ solPrice' = PriceOnFailure(priceCache)
  /\ opc' = [opc EXCEPT ![k] = "returned"]
  /\ UNCHANGED <<priceCache, priceStamp, onow, clock, meta, others>>

\* The caller goes on with the price it was given.
ReturnPrice(k) ==
  /\ opc[k] = "returned"
  /\ opc' = [opc EXCEPT ![k] = "idle"]
  /\ UNCHANGED <<priceCache, priceStamp, onow, solPrice, clock, meta, others>>

\* Time passes.
TickPrice ==
  /\ clock + TickStep <= MaxClock
  /\ clock' = clock + TickStep
  /\ UNCHANGED <<price, solPrice, meta, others>>

NextPrice ==
  \/ \E k \in Callers : BeginPrice(k)
  \/ \E k \in Callers, r \in SourcePrices : FetchOk(k, r)
  \/ \E k \in Callers : FetchFail(k)
  \/ \E k \in Callers : ReturnPrice(k)
  \/ TickPrice

SpecPrice == Init /\ [][NextPrice]_vars

\* _get_token_metadata(mint), with the answer the source gives if asked.
GetTokenMetadata(mint, resp) ==
  /\ IF MetaHit(tokenCache[mint], clock)
     THEN /\ metaRet' = tokenCache[mint]
          /\ UNCHANGED tokenCache
     ELSE LET result == [symbol |-> FinalSymbol(SymbolFromSource(resp), mint),
                         cached_at |-> clock]
          IN /\ tokenCache' = [tokenCache EXCEPT ![mint] = result]
             /\ metaRet' = result
  /\ UNCHANGED <<clock, price, solPrice, others>>

TickMeta ==
  /\ clock + MetaStep <= MaxMetaClock
  /\ clock' = clock + MetaStep
  /\ UNCHANGED <<price, solPrice, meta, others>>

NextMeta ==
  \/ \E m \in MetaMints, resp \in Responses : GetTokenMetadata(m, resp)
  \/ TickMeta

SpecMeta == Init /\ [][NextMeta]_vars

\* ------------------------------------------------------------------------
\* Pushes of unusable transactions (SpecMalformed)
\* ------------------------------------------------------------------------

\* A transaction without transfer lists, and one with native transfers only.
EvEmpty == Event("s1", FALSE, <<>>, <<>>, <<>>)

EvNativeOnly == Event("s1", FALSE, <<>>, <<Native(W, X, 2500000)>>, <<>>)

\* What the upstream pushes here: the feed's transactions as failed ones and
\* without signature, transactions without token transfers, and one good buy.
MalformedFeed == BadEvents \cup {EvEmpty, EvNativeOnly, EvBuy}

NextMalformed ==
  \/ \E ev \in MalformedFeed : Receive(ev)
  \/ \E S \in SUBSET Tracked : UpdateKnownWhales(S)
  \/ \E t \in Threads : Step(t)

SpecMalformed == Init /\ [][NextMalformed]_vars

\* ------------------------------------------------------------------------
\* The webhook's dispatch (SpecHook)
\* ------------------------------------------------------------------------

\* The sets update_known_whales may be given: the tracked wallet, the
\* counterparty of the feed's transfers, and an address in no transaction.
KnownSets == SUBSET {W, X, Y}

\* Pushes of the feed's transactions, under any known-whale set; the
\* threads started are left where they start.
NextHook ==
  \/ \E ev \in Feed : Receive(ev)
  \/ \E S \in KnownSets : UpdateKnownWhales(S)

SpecHook == Init /\ [][NextHook]_vars

\* ------------------------------------------------------------------------
\* The rate limiter under load (SpecSlots)
\* ------------------------------------------------------------------------
\* More invocations than slots reach `async with self.rate_limiter`. Each
\* runs in a thread of its own with an event loop of its own (webhook()),
\* and all of them share the one asyncio.Semaphore the bot was built with.
\* The semaphore is made for the coroutines of one event loop, which cannot
\* interleave inside acquire(); threads can, so acquire() is given here in
\* its two statements, the test of the value and the decrement. The
\* invocations are anonymous and counted by where they stand.
MaxSenders == 21

\* The invocations that have reached the limiter and not left it.
AtLimiter == senders.waiting + senders.passed + senders.flying

\* An invocation arrives at `async with self.rate_limiter`.
ReachLimiter ==
  /\ AtLimiter < MaxSenders
  /\ senders' = [senders EXCEPT !.waiting = @ + 1]
  /\ UNCHANGED <<db, knownWhales, permits, pc, locals, history, caches>>

\* acquire(): the semaphore is found not locked.
TestLocked ==
  /\ senders.waiting > 0
  /\ permits > 0
  /\ senders' = [senders EXCEPT !.waiting = @ - 1, !.passed = @ + 1]
  /\ UNCHANGED <<db, knownWhales, permits, pc, locals, history, caches>>

\* acquire(): the value is decremented, and send_message is called.
TakeSlot ==
  /\ senders.passed > 0
  /\ permits' = permits - 1
  /\ senders' = [senders EXCEPT !.passed = @ - 1, !.flying = @ + 1]
  /\ UNCHANGED <<db, knownWhales, pc, locals, history, caches>>

\* send_message returns or raises TelegramError; __aexit__ releases the slot.
ReleaseSlot ==
  /\ senders.flying > 0
  /\ permits' = permits + 1
  /\ senders' = [senders EXCEPT !.flying = @ - 1]
  /\ UNCHANGED <<db, knownWhales, pc, locals, history, caches>>

NextSlots == ReachLimiter \/ TestLocked \/ TakeSlot \/ ReleaseSlot

SpecSlots == Init /\ [][NextSlots]_vars

\* ------------------------------------------------------------------------
\* Properties of the delivery (Spec)
\* ------------------------------------------------------------------------
SigOf(t) == Signature(tx[t])

\* u is another invocation for the signature of t.
SameSig(t, u) == t # u /\ pc[u] # "idle" /\ SigOf(u) = SigOf(t)

\* Chat a comes before chat b in the bindings invocation t read.
Before(t, a, b) ==
  \E i, j \in 1..Len(entries[t]) : i < j /\ entries[t][i] = a /\ entries[t][j] = b

\* C1: for every (chat, signature), over all invocations for the signature,
\* concurrent ones included, at most one send to the chat succeeds.
C1_AtMostOneSuccessfulSend ==
  \A c \in Chats, t \in Threads : Sent(c, SigOf(t)) <= 1

\* C2 as stated: when an invocation for a signature starts after another one
\* for the same signature has finished, at most one of the two makes a send
\* call for a given chat.
C2_AtMostOneSendCall ==
  \A t1, t2 \in Threads, c \in Chats :
    (t1 \in doneBefore[t2] /\ SameSig(t1, t2))
      => ~(report[t1][c] \in Attempted /\ report[t2][c] \in Attempted)

\* C2, amended: when the first invocation's send to the chat succeeded and
\* its marker was written, an invocation for the same signature that starts
\* after the first has finished makes no send call for the chat.
C2_NoSendAfterMarkedDelivery ==
  \A t1, t2 \in Threads, c \in Chats :
    (t1 \in doneBefore[t2] /\ SameSig(t1, t2) /\ report[t1][c] = "written")
      => report[t2][c] \notin Attempted

C2_SecondShortCircuited ==
  \E t1, t2 \in Threads, c \in Chats :
    /\ t1 \in doneBefore[t2] /\ SameSig(t1, t2)
    /\ report[t1][c] = "written"
    /\ report[t2][c] = "marked"
    /\ pc[t2] = "done"

\* C3: a marker for (chat, signature) exists only if a send of the
\* signature's alert to the chat has succeeded; an invocation is at the
\* marker write only after its own send to the chat succeeded (never before
\* the send, never after a failed send); and every send attempt of an
\* invocation comes after its read of the chat's marker.
C3_MarkerOnlyAfterSuccess ==
  /\ \A m \in processed :
       \E t \in Threads : SigOf(t) = m[2] /\ report[t][m[1]] \in Succeeded
  /\ \A t \in Threads : pc[t] = "mark" => report[t][Chat(t)] = "sent"
  /\ \A t \in Threads, c \in Chats : report[t][c] = "written" => <<c, SigOf(t)>> \in processed
  /\ \A t \in Threads, c \in Chats : report[t][c] \in Attempted => c \in checked[t]
  /\ \A t \in Threads : pc[t] \in {"send", "sending"} => Chat(t) \in checked[t]

C3_MarkedOneFailedOther ==
  \E t \in Threads, a, b \in Chats :
    /\ report[t][a] = "failed" /\ <<a, SigOf(t)>> \notin processed
    /\ report[t][b] = "written" /\ <<b, SigOf(t)>> \in processed

\* C4 as stated: when, within one finished invocation, the send to A failed
\* and the send to B succeeded, B's marker for the signature is present and
\* A's is absent.
C4_Isolation ==
  \A t \in Threads, a, b \in Chats :
    (pc[t] = "done" /\ report[t][a] = "failed" /\ report[t][b] \in Succeeded)
      => (<<b, SigOf(t)>> \in processed /\ <<a, SigOf(t)>> \notin processed)

\* No send of another invocation for the signature of t succeeded for chat c.
NoOtherDelivery(t, c) ==
  \A u \in Threads : SameSig(t, u) => report[u][c] \notin Succeeded

\* C4, amended: the same, provided the marker write of the invocation did
\* not raise a store error and no other invocation for the signature
\* delivered to A; whichever of A and B comes first.
C4_IsolationWithoutStoreError ==
  \A t \in Threads, a, b \in Chats :
    (/\ pc[t] = "done" /\ report[t][a] = "failed" /\ report[t][b] \in Succeeded
     /\ abort[t] # "mark"
     /\ NoOtherDelivery(t, a))
      => (<<b, SigOf(t)>> \in processed /\ <<a, SigOf(t)>> \notin processed)

C4_FailedThenDelivered ==
  \E t \in Threads, a, b \in Chats :
    /\ pc[t] = "done" /\ abort[t] = "none" /\ Before(t, a, b)
    /\ report[t][a] = "failed" /\ report[t][b] = "written"
    /\ NoOtherDelivery(t, a)
    /\ <<b, SigOf(t)>> \in processed /\ <<a, SigOf(t)>> \notin processed

\* Invocation t has dealt with the binding of chat c: a send call was made,
\* or the marker was found, or the chat's alerts were found disabled.
Handled(t, c) == report[t][c] \in Attempted \cup {"marked", "off"}

\* Invocation t classified its event as a trade and has finished.
Finished(t) == pc[t] = "done" /\ trade[t] # NoTrade

\* C5 as stated: in every finished invocation, every binding read gets its
\* send attempt unless it is marked delivered or has alerts disabled,
\* however the sends and the marker writes for earlier bindings ended.
C5_AttemptsDespiteMarkerFailure ==
  \A t \in Threads :
    (Finished(t) /\ abort[t] \in {"none", "mark"})
      => \A c \in Range(entries[t]) : Handled(t, c)

\* C5, amended: in every finished invocation in which no store call raised,
\* every binding read gets its send attempt unless it is marked delivered
\* or has alerts disabled, however the sends for earlier bindings ended; a
\* binding is passed over as marked only when its marker is stored, and as
\* disabled only when the chat's alerts are off at that moment.
C5_AttemptsDespiteFailedSends ==
  /\ [](\A t \in Threads :
         (Finished(t) /\ abort[t] = "none")
           => \A c \in Range(entries[t]) :
                /\ Handled(t, c)
                /\ report[t][c] = "marked" => <<c, SigOf(t)>> \in processed)
  /\ [][\A t \in Threads, c \in Chats :
         (report'[t][c] = "off" /\ report[t][c] # "off") => ~alerts[c]]_vars

C5_AttemptAfterFailure ==
  \E t \in Threads, a, b \in Chats :
    /\ Finished(t) /\ abort[t] = "none" /\ Before(t, a, b)
    /\ report[t][a] = "failed"
    /\ report[t][b] \in Attempted

\* C6 as stated: when an invocation for a signature has finished, and a
\* later invocation for the same signature has finished too, the later one
\* made a send call for every chat whose send failed in the first, and none
\* for the chats whose send succeeded in the first.
C6_ResendRetriesOnlyFailed ==
  \A t1, t2 \in Threads, c \in Chats :
    (t1 \in doneBefore[t2] /\ SameSig(t1, t2) /\ pc[t2] = "done")
      => /\ report[t1][c] = "failed" => report[t2][c] \in Attempted
         /\ report[t1][c] \in Succeeded => report[t2][c] \notin Attempted

\* C6, amended: the later invocation makes a send call for a chat whose
\* send failed in the first, provided it classifies the event as a trade
\* again, no store call of it raises, it still reads the chat's binding as
\* active and the chat's alerts as enabled, and no other invocation has
\* delivered to the chat; it makes no send call for a chat whose send
\* succeeded in the first and whose marker was written.
C6_ResendRetriesFailedSkipsMarked ==
  \A t1, t2 \in Threads, c \in Chats :
    (t1 \in doneBefore[t2] /\ SameSig(t1, t2) /\ pc[t2] = "done")
      => /\ (/\ report[t1][c] = "failed"
             /\ Finished(t2) /\ abort[t2] = "none"
             /\ c \in Range(entries[t2])
             /\ report[t2][c] # "off"
             /\ NoOtherDelivery(t2, c))
              => report[t2][c] \in Attempted
         /\ report[t1][c] = "written" => report[t2][c] \notin Attempted

C6_RetriedOneSkippedOther ==
  \E t1, t2 \in Threads, a, b \in Chats :
    /\ t1 \in doneBefore[t2] /\ SameSig(t1, t2) /\ pc[t2] = "done"
    /\ report[t1][a] = "failed" /\ report[t2][a] \in Attempted
    /\ report[t1][b] = "written" /\ report[t2][b] = "marked"

\* ------------------------------------------------------------------------
\* Property of the program as wired (SpecWired)
\* ------------------------------------------------------------------------
FeedSigs == {Signature(ev) : ev \in Feed}

\* C7: whenever a push carries a qualifying swap of an address a chat tracks
\* with an active binding and alerts enabled, a send call for that chat and
\* signature is eventually made.
C7_EventuallyAttempted ==
  \A c \in Chats, s \in FeedSigs : (<<c, s>> \in owed) ~> (Tried(c, s) > 0)

\* ------------------------------------------------------------------------
\* Properties of the classification (SpecParse)
\* ------------------------------------------------------------------------

\* The raw event has a generic-token transfer entry of the address; one in
\* which the address receives, or sends, a positive amount.
HasGenericEntry(ev, a) ==
  \E tr \in Range(ev.tokenTransfers) :
    (tr.from = a \/ tr.to = a) /\ tr.mint \notin {SOL_MINT, USDC_MINT, USDT_MINT}

RecvGeneric(ev, a) ==
  \E tr \in Range(ev.tokenTransfers) :
    tr.to = a /\ tr.from # a /\ tr.amount > 0
      /\ tr.mint \notin {SOL_MINT, USDC_MINT, USDT_MINT}

SentGeneric(ev, a) ==
  \E tr \in Range(ev.tokenTransfers) :
    tr.from = a /\ tr.amount > 0 /\ tr.mint \notin {SOL_MINT, USDC_MINT, USDT_MINT}

Parsed(t) == pc[t] \notin {"idle", "lookup", "parse"}

\* C8: for every raw event without a generic-token transfer entry of the
\* tracked address, parse_transaction returns no trade, and the invocation
\* ends without a send.
C8_NoGenericNoTrade ==
  \A t \in Threads :
    (Parsed(t) /\ ~HasGenericEntry(tx[t], wa[t]))
      => (trade[t] = NoTrade /\ pc[t] = "done" /\ report[t] = NoReport)

C8_StableOnlyRejected ==
  \E t \in Threads :
    /\ Parsed(t) /\ ~HasGenericEntry(tx[t], wa[t])
    /\ tx[t].signature # NoSig /\ ~tx[t].err
    /\ SumMint(tx[t].tokenTransfers, wa[t], {USDC_MINT}) < -STABLE_MIN
    /\ SumNative(tx[t].nativeTransfers, wa[t]) > DUST_THRESHOLD_SOL
    /\ trade[t] = NoTrade

\* C9: every trade parse_transaction returns has output quantity > 0, input
\* quantity > 0 and USD value >= the minimum alert value, at every price.
C9_TradeInvariant ==
  \A t \in Threads :
    trade[t] # NoTrade
      => /\ trade[t].token_amount > 0
         /\ trade[t].input_amount > 0
         /\ trade[t].usd_value >= MIN_USD_VALUE

C9_TradeAtMinimum ==
  \E t \in Threads :
    /\ trade[t] # NoTrade
    /\ trade[t].usd_value = MIN_USD_VALUE

\* C10: a returned trade is BUY exactly when the tracked address received a
\* generic token, and SELL exactly when it sent generic tokens and received
\* none; with both received and sent generic tokens it is never SELL.
C10_Direction ==
  \A t \in Threads :
    (Parsed(t) /\ trade[t] # NoTrade)
      => LET recv == RecvGeneric(tx[t], wa[t])
             sent == SentGeneric(tx[t], wa[t])
         IN /\ trade[t].type = "BUY" <=> recv
            /\ trade[t].type = "SELL" <=> (sent /\ ~recv)
            /\ (recv /\ sent) => trade[t].type # "SELL"

C10_BothWaysIsBuy ==
  \E t \in Threads :
    /\ Parsed(t) /\ trade[t] # NoTrade
    /\ RecvGeneric(tx[t], wa[t]) /\ SentGeneric(tx[t], wa[t])
    /\ WhaleMovements(tx[t], wa[t]).sol > 0
    /\ trade[t].type = "BUY"

\* The positions, in the raw event's token transfers, of the generic-token
\* entries the address receives, and of those it sends.
RecvIdx(ev, a) ==
  {i \in DOMAIN ev.tokenTransfers :
     LET tr == ev.tokenTransfers[i]
     IN tr.to = a /\ tr.from # a /\ tr.amount > 0
          /\ tr.mint \notin {SOL_MINT, USDC_MINT, USDT_MINT}}

SentIdx(ev, a) ==
  {i \in DOMAIN ev.tokenTransfers :
     LET tr == ev.tokenTransfers[i]
     IN tr.from = a /\ tr.amount > 0
          /\ tr.mint \notin {SOL_MINT, USDC_MINT, USDT_MINT}}

\* Entry i is, among the entries at the positions I, of the largest amount,
\* and the first of that amount.
FirstLargest(ev, I, i) ==
  /\ i \in I
  /\ \A j \in I :
       /\ ev.tokenTransfers[j].amount <= ev.tokenTransfers[i].amount
       /\ j < i => ev.tokenTransfers[j].amount < ev.tokenTransfers[i].amount

\* The positions the output token of trade tr is chosen from.
OutputIdx(ev, a, tr) == IF tr.type = "BUY" THEN RecvIdx(ev, a) ELSE SentIdx(ev, a)

\* C11: the output token of a BUY is the received generic-token entry of
\* the largest amount, of a SELL the sent entry of the largest amount, and
\* among several entries of the largest amount the first in the input list.
C11_OutputIsFirstLargest ==
  \A t \in Threads :
    (Parsed(t) /\ trade[t] # NoTrade)
      => \E i \in OutputIdx(tx[t], wa[t], trade[t]) :
           /\ FirstLargest(tx[t], OutputIdx(tx[t], wa[t], trade[t]), i)
           /\ tx[t].tokenTransfers[i].mint = trade[t].token_mint
           /\ tx[t].tokenTransfers[i].amount = trade[t].token_amount

C11_TieFirstWins ==
  \E t \in Threads :
    /\ Parsed(t) /\ trade[t] # NoTrade
    /\ \E i, j \in OutputIdx(tx[t], wa[t], trade[t]) :
         /\ i < j
         /\ FirstLargest(tx[t], OutputIdx(tx[t], wa[t], trade[t]), i)
         /\ tx[t].tokenTransfers[j].amount = tx[t].tokenTransfers[i].amount
         /\ tx[t].tokenTransfers[j].mint # tx[t].tokenTransfers[i].mint
         /\ trade[t].token_mint = tx[t].tokenTransfers[i].mint

\* The net stablecoin delta of the address in the raw event.
StableDelta(ev, a) == SumMint(ev.tokenTransfers, a, {USDC_MINT, USDT_MINT})

\* The raw event is a successful transaction with a signature.
Good(ev) == ev.signature # NoSig /\ ~ev.err

\* C12 as stated: whenever the magnitude of the net stablecoin delta exceeds
\* the minimum, the trade's input asset is stablecoin and its input amount
\* the magnitude of the stablecoin delta.
C12_StableFirst ==
  \A t \in Threads :
    (Parsed(t) /\ trade[t] # NoTrade /\ Abs(StableDelta(tx[t], wa[t])) > STABLE_MIN)
      => /\ trade[t].input_asset = "USDC"
         /\ trade[t].input_amount = Abs(StableDelta(tx[t], wa[t]))

\* C12, amended: whenever the net stablecoin delta exceeds the minimum in
\* the paying direction (spent, when a generic token was received; received,
\* when generic tokens were only sent), the event is classified with input
\* asset stablecoin and input amount the magnitude of the stablecoin delta,
\* whatever the native movement.
C12_StableFirstInPayingDirection ==
  \A t \in Threads :
    (Parsed(t) /\ Good(tx[t]))
      => LET sd == StableDelta(tx[t], wa[t])
             recv == RecvIdx(tx[t], wa[t]) # {}
             sent == SentIdx(tx[t], wa[t]) # {}
         IN /\ (recv /\ sd < -STABLE_MIN)
                 => /\ trade[t] # NoTrade
                    /\ trade[t].type = "BUY"
                    /\ trade[t].input_asset = "USDC"
                    /\ trade[t].input_amount = -sd
            /\ (~recv /\ sent /\ sd > STABLE_MIN)
                 => /\ trade[t] # NoTrade
                    /\ trade[t].type = "SELL"
                    /\ trade[t].input_asset = "USDC"
                    /\ trade[t].input_amount = sd

C12_StableOverLargeNative ==
  \E t \in Threads :
    /\ Parsed(t) /\ trade[t] # NoTrade
    /\ trade[t].type = "BUY"
    /\ StableDelta(tx[t], wa[t]) < -STABLE_MIN
    /\ WhaleMovements(tx[t], wa[t]).sol <= -2500000
    /\ trade[t].input_asset = "USDC"

\* The native delta the aggregation ends with, and whether a generic token
\* moved at all.
NativeDelta(ev, a) == WhaleMovements(ev, a).sol

GenericMoved(ev, a) == RecvIdx(ev, a) # {} \/ SentIdx(ev, a) # {}

\* No payment leg: the native delta is below the dust threshold or of the
\* wrong sign, and there is no stablecoin movement in the paying direction
\* (spending for a receipt of generic tokens, receiving otherwise).
NoPaymentLeg(ev, a) ==
  LET sol == NativeDelta(ev, a)
      sd == StableDelta(ev, a)
  IN IF RecvIdx(ev, a) # {}
     THEN (Abs(sol) < DUST_THRESHOLD_SOL \/ sol >= 0) /\ sd >= 0
     ELSE (Abs(sol) < DUST_THRESHOLD_SOL \/ sol <= 0) /\ sd <= 0

\* Deltas {native: -0.003, tokenX: +500}, no stablecoin movement.
EvDust ==
  Event("s1", FALSE, <<Transfer(X, W, "T1", 500)>>, <<Native(W, X, 3000)>>, <<>>)

\* C13: when generic tokens moved but no payment leg is identifiable, the
\* event is rejected and the invocation ends without a send; so it is for
\* the deltas {native: -0.003, tokenX: +500}.
C13_NoCounterAssetRejected ==
  \A t \in Threads :
    Parsed(t)
      => /\ (GenericMoved(tx[t], wa[t]) /\ NoPaymentLeg(tx[t], wa[t]))
              => (trade[t] = NoTrade /\ pc[t] = "done" /\ report[t] = NoReport)
         /\ tx[t] = EvDust => trade[t] = NoTrade

C13_DustRejected ==
  \E t \in Threads :
    /\ Parsed(t) /\ tx[t] = EvDust
    /\ GenericMoved(tx[t], wa[t]) /\ NoPaymentLeg(tx[t], wa[t])
    /\ trade[t] = NoTrade /\ pc[t] = "done"

\* C14: an accepted trade's USD value is its input amount when the input
\* asset is stablecoin, and its input amount times the reference price when
\* it is native; the deltas {native: -2.5, tokenX: +1,000,000} at price 150
\* give a BUY with input asset native, input amount 2.5 and USD value 375.
C14_UsdValuation ==
  \A t \in Threads :
    Parsed(t)
      => /\ trade[t] # NoTrade
              => /\ trade[t].input_asset \in {"USDC", "SOL"}
                 /\ trade[t].input_asset = "USDC"
                      => trade[t].usd_value = trade[t].input_amount
                 /\ trade[t].input_asset = "SOL"
                      => trade[t].usd_value = trade[t].input_amount * solPrice
         /\ (tx[t] = EvBuyNative /\ solPrice = 150)
              => /\ trade[t] # NoTrade
                 /\ trade[t].type = "BUY"
                 /\ trade[t].token_mint = "T1"
                 /\ trade[t].token_amount = 1000000
                 /\ trade[t].input_asset = "SOL"
                 /\ trade[t].input_amount = 2500000
                 /\ trade[t].usd_value = 375000000

C14_BuyNativeAt150 ==
  \E t \in Threads :
    /\ Parsed(t) /\ tx[t] = EvBuyNative /\ solPrice = 150
    /\ trade[t] # NoTrade
    /\ trade[t].usd_value = 375000000
    /\ pc[t] = "check"

\* Deltas {tokenX: -2,000, stablecoin: +1,200}.
EvSellStable ==
  Event("s1", FALSE,
        <<Transfer(X, W, USDC_MINT, 1200000000), Transfer(W, X, "T1", 2000)>>,
        <<>>, <<>>)

\* C15: an event in which the address only sent generic tokens and received
\* more than the minimum in stablecoin is a SELL with input asset
\* stablecoin, and input amount and USD value the stablecoin received, at
\* every reference price; the paying leg of a SELL is that of a BUY with
\* the signs of the native and stablecoin deltas reversed; the deltas
\* {tokenX: -2,000, stablecoin: +1,200} give a SELL of 2,000 tokenX for
\* 1,200, worth 1,200.
C15_SellMirrorsBuy ==
  \A t \in Threads :
    (Parsed(t) /\ Good(tx[t]))
      => /\ (/\ RecvIdx(tx[t], wa[t]) = {}
             /\ SentIdx(tx[t], wa[t]) # {}
             /\ StableDelta(tx[t], wa[t]) > STABLE_MIN)
              => /\ trade[t] # NoTrade
                 /\ trade[t].type = "SELL"
                 /\ trade[t].input_asset = "USDC"
                 /\ trade[t].input_amount = StableDelta(tx[t], wa[t])
                 /\ trade[t].usd_value = StableDelta(tx[t], wa[t])
         /\ SellInput(NativeDelta(tx[t], wa[t]), StableDelta(tx[t], wa[t]))
              = BuyInput(-NativeDelta(tx[t], wa[t]), -StableDelta(tx[t], wa[t]))
         /\ tx[t] = EvSellStable
              => /\ trade[t] # NoTrade
                 /\ trade[t].type = "SELL"
                 /\ trade[t].token_mint = "T1"
                 /\ trade[t].token_amount = 2000
                 /\ trade[t].input_asset = "USDC"
                 /\ trade[t].input_amount = 1200000000
                 /\ trade[t].usd_value = 1200000000

C15_SellStableAtLowPrice ==
  \E t \in Threads :
    /\ Parsed(t) /\ tx[t] = EvSellStable /\ solPrice = 50
    /\ trade[t] # NoTrade
    /\ trade[t].type = "SELL"
    /\ trade[t].usd_value = 1200000000

\* The positions of the accountData entries of the address.
AccountIdx(ev, a) == {i \in DOMAIN ev.accountData : ev.accountData[i].account = a}

\* The explicit native delta is below the dust threshold, and the address
\* has one accountData entry, of a magnitude at or above the threshold.
FallbackClears(ev, a) ==
  /\ Abs(ExplicitSol(ev, a)) < DUST_THRESHOLD_SOL
  /\ Cardinality(AccountIdx(ev, a)) = 1
  /\ \A i \in AccountIdx(ev, a) : Abs(ev.accountData[i].change) >= DUST_THRESHOLD_SOL

\* C16: whenever the native delta summed from the explicit token and native
\* transfers is below the dust threshold in magnitude and the accountData
\* entry of the tracked address is at or above it, the native delta of the
\* aggregation is the account-level value, and it is what a buy with no
\* stablecoin movement is paid with; explicit -0.000005 and account -3.1
\* give -3.1.
C16_FallbackAdopted ==
  \A t \in Threads :
    (Parsed(t) /\ FallbackClears(tx[t], wa[t]))
      => \A i \in AccountIdx(tx[t], wa[t]) :
           LET change == tx[t].accountData[i].change
           IN /\ NativeDelta(tx[t], wa[t]) = change
              /\ (/\ trade[t] # NoTrade
                  /\ RecvIdx(tx[t], wa[t]) # {}
                  /\ StableDelta(tx[t], wa[t]) = 0)
                   => /\ change < 0
                      /\ trade[t].input_asset = "SOL"
                      /\ trade[t].input_amount = -change

C16_FeeOnlyAdoptsAccount ==
  \E t \in Threads :
    /\ Parsed(t) /\ FallbackClears(tx[t], wa[t])
    /\ ExplicitSol(tx[t], wa[t]) = -5
    /\ NativeDelta(tx[t], wa[t]) = -3100000
    /\ trade[t] # NoTrade
    /\ trade[t].input_asset = "SOL"
    /\ trade[t].input_amount = 3100000

\* Every native movement of the address is below the dust threshold: the
\* explicit native delta, and every accountData entry of the address.
SubDustOnly(ev, a) ==
  /\ Abs(ExplicitSol(ev, a)) < DUST_THRESHOLD_SOL
  /\ \A i \in AccountIdx(ev, a) : Abs(ev.accountData[i].change) < DUST_THRESHOLD_SOL

\* The raw event without its native movements.
StripNative(ev) ==
  [ev EXCEPT !.nativeTransfers = <<>>,
             !.accountData = <<>>,
             !.tokenTransfers = SelectSeq(@, LAMBDA tr : tr.mint # SOL_MINT)]

\* C17 as stated: when the only native movement of the address is below the
\* dust threshold and no account-level delta clears it, the native delta
\* of the aggregation is zero.
C17_SubDustNetsToZero ==
  \A t \in Threads :
    (Parsed(t) /\ SubDustOnly(tx[t], wa[t])) => NativeDelta(tx[t], wa[t]) = 0

\* C17, amended: in that case the native delta of the aggregation is the
\* explicit sub-dust sum, kept as it is, and it has no part in the
\* classification: the result is the one the event gives without its
\* native movements, and an accepted trade is paid in stablecoin.
C17_SubDustIgnored ==
  \A t \in Threads :
    (Parsed(t) /\ SubDustOnly(tx[t], wa[t]))
      => /\ NativeDelta(tx[t], wa[t]) = ExplicitSol(tx[t], wa[t])
         /\ Abs(NativeDelta(tx[t], wa[t])) < DUST_THRESHOLD_SOL
         /\ trade[t] = parse_transaction(StripNative(tx[t]), wa[t], solPrice)
         /\ trade[t] # NoTrade => trade[t].input_asset = "USDC"

C17_FeeKeptButIgnored ==
  \E t \in Threads :
    /\ Parsed(t) /\ SubDustOnly(tx[t], wa[t])
    /\ NativeDelta(tx[t], wa[t]) = -5
    /\ trade[t] # NoTrade
    /\ trade[t].input_asset = "USDC"
    /\ trade[t].usd_value = MIN_USD_VALUE


\* ------------------------------------------------------------------------
\* Properties of the price oracle (SpecPrice)
\* ------------------------------------------------------------------------

\* A price has been fetched successfully at some time.
Fetched == priceCache # NoPrice

\* The age of the cached price as the call of caller k measures it.
Age == clock - priceStamp

\* C18: once a price has been fetched, a call of _get_sol_price made while
\* the age of the cache is below the TTL returns the cached value without
\* contacting the price source, and a call made at an age of at least the
\* TTL sends a request to the source.
C18_CacheHitWithinTTL ==
  [][\A k \in Callers :
       (BeginPrice(k) /\ Fetched)
         => IF Age < PRICE_TTL
            THEN opc'[k] = "returned" /\ solPrice' = priceCache
            ELSE opc'[k] = "fetching"]_vars

\* A price of zero was fetched less than the TTL ago and a caller is about
\* to ask for the price.
C18_ZeroCachedWithinTTL ==
  /\ priceCache = 0
  /\ Age < PRICE_TTL
  /\ \E k \in Callers : opc[k] = "idle"

\* C19: when the refresh fails, _get_sol_price returns the last fetched
\* price if there is one and the fallback constant 200 otherwise (the call
\* always ends by returning: FetchFail has no other outcome).
C19_FailureReturnsLastGood ==
  [][\A k \in Callers :
       FetchFail(k)
         => solPrice' = IF Fetched THEN priceCache ELSE FALLBACK_SOL_PRICE]_vars

\* A refresh is under way while the last fetched price is zero.
C19_ZeroCachedWhileFetching ==
  /\ priceCache = 0
  /\ \E k \in Callers : opc[k] = "fetching"


\* ------------------------------------------------------------------------
\* Properties of the metadata resolver (SpecMeta)
\* ------------------------------------------------------------------------

\* A call of _get_token_metadata has returned.
Resolved == metaRet # NoMeta

\* The symbols the source supplies that are not empty.
NonEmptySourceSymbols == {v \in SourceSymbols : ~v.null /\ v.s # <<>>}

\* C20: the symbol _get_token_metadata returns is a non-empty symbol the
\* source supplied or the abbreviation of a mint address; it is never null,
\* never empty and never the placeholder UNKNOWN.
C20_UsableSymbol ==
  Resolved
    => /\ ~metaRet.symbol.null
       /\ metaRet.symbol.s # <<>>
       /\ metaRet.symbol.s # UNKNOWN
       /\ metaRet.symbol \in
            NonEmptySourceSymbols \cup {Str(Abbrev(m)) : m \in MetaMints}

\* The source supplied an empty symbol for the long mint; it was returned
\* and is now the cached entry of that mint.
C20_EmptySymbolCached ==
  /\ Resolved
  /\ metaRet.symbol = Str(<<>>)
  /\ tokenCache[LongMint] = metaRet


\* ------------------------------------------------------------------------
\* Properties of the rate limiter (SpecSlots)
\* ------------------------------------------------------------------------

\* C21: at every moment at most RATE_LIMIT (20) alert sends are in flight,
\* over all chats and all concurrently running invocations.
C21_AtMostLimitInFlight == senders.flying <= RATE_LIMIT

\* Every slot is taken and one more invocation has found the semaphore not
\* locked before the last slot was taken.
C21_PassedWithNoSlotLeft == permits = 0 /\ senders.passed > 0


\* ------------------------------------------------------------------------
\* Properties of the delivery (Spec), continued
\* ------------------------------------------------------------------------

\* A store call of the invocation of thread t raised.
Aborted(t) == abort[t] # "none"

\* C22 as stated: a store error is surfaced to the caller of
\* process_transaction as an error (the invocation ends by raising).
C22_SurfacedToCaller == \A t \in Threads : Aborted(t) => pc[t] = "raised"

\* C22, amended: a store error ends that invocation only. The error is
\* logged and process_transaction returns normally; the step that ends the
\* invocation changes nothing of the store, of the rate limiter or of any
\* other invocation.
C22_FatalToInvocationOnly ==
  /\ [](\A t \in Threads : Aborted(t) => pc[t] = "done")
  /\ [][\A t \in Threads :
          (~Aborted(t) /\ Aborted(t)')
            => /\ UNCHANGED <<db, knownWhales, permits>>
               /\ \A u \in Threads \ {t} :
                    /\ pc'[u] = pc[u] /\ tx'[u] = tx[u] /\ wa'[u] = wa[u]
                    /\ entries'[u] = entries[u] /\ idx'[u] = idx[u]
                    /\ trade'[u] = trade[u] /\ report'[u] = report[u]
                    /\ abort'[u] = abort[u]]_vars

\* An invocation ended on a store error, and an invocation started after
\* it has delivered an alert.
C22_DeliveredAfterStoreError ==
  \E t, u \in Threads, c \in Chats :
    /\ Aborted(t)
    /\ t \in doneBefore[u]
    /\ report[u][c] \in Succeeded


\* ------------------------------------------------------------------------
\* Properties of the handling of unusable input (SpecMalformed)
\* ------------------------------------------------------------------------

\* No signature, the failed-transaction flag, or no token transfers.
Malformed(ev) == ev.signature = NoSig \/ ev.err \/ ev.tokenTransfers = <<>>

\* Invocation t has read bindings and has called parse_transaction.
RanParse(t) == Parsed(t) /\ entries[t] # <<>>

\* C23: for a transaction without signature, with the failed flag or without
\* token transfers, parse_transaction returns no trade and the invocation
\* ends there: no send is made, no marker is written, and no marker is ever
\* stored under the placeholder signature 'unknown'.
C23_MalformedRejected ==
  /\ \A t \in Threads :
       (pc[t] # "idle" /\ Malformed(tx[t]))
         => /\ pc[t] \in {"lookup", "parse", "done"}
            /\ trade[t] = NoTrade
            /\ report[t] = NoReport
            /\ \A p \in Prices : parse_transaction(tx[t], wa[t], p) = NoTrade
  /\ \A m \in processed :
       /\ m[2] # "unknown"
       /\ \E t \in Threads :
            ~Malformed(tx[t]) /\ SigOf(t) = m[2] /\ report[t][m[1]] = "written"

\* A transaction without signature was parsed and its invocation is over,
\* while the bindings it read were there to be alerted.
C23_NoSignatureParsed ==
  \E t \in Threads :
    /\ tx[t].signature = NoSig
    /\ tx[t].tokenTransfers # <<>>
    /\ RanParse(t)
    /\ pc[t] = "done"
    /\ abort[t] = "none"


\* ------------------------------------------------------------------------
\* Properties of the delivery (Spec): retries, eligibility, isolation
\* ------------------------------------------------------------------------

\* C24: within one invocation a chat gets at most one send attempt: a send
\* call for a chat is made only when the invocation has no outcome for that
\* chat yet, whether an earlier attempt would have succeeded or failed.
C24_NoRetry ==
  [][\A t \in Threads, c \in Chats :
       (report[t][c] # "sending" /\ report'[t][c] = "sending")
         => report[t][c] = "-"]_vars

\* An invocation is over, its send to a chat failed and was not repeated,
\* and it went on to attempt the other chat.
C24_FailedAndNotRetried ==
  \E t \in Threads, c, d \in Chats :
    /\ c # d
    /\ pc[t] = "done"
    /\ report[t][c] = "failed"
    /\ report[t][d] \in Attempted


\* C25: an invocation sends only to chats whose binding was active at its
\* registry lookup, and not to a chat whose alerts setting is false when the
\* loop reads it; a chat skipped for its setting stays skipped in that
\* invocation, and a marker is written only by an invocation whose send to
\* that chat succeeded, never for a skipped chat.
C25_EligibilityGate ==
  /\ [](\A t \in Threads, c \in Chats :
          report[t][c] # "-" => c \in Range(entries[t]))
  /\ [][\A t \in Threads :
          /\ (pc[t] = "lookup" /\ pc'[t] = "parse")
               => Range(entries'[t]) = ActiveBindings(wa[t])
          /\ (pc[t] = "settings" /\ pc'[t] # "settings" /\ ~alerts[Chat(t)])
               => /\ pc'[t] \in {"check", "done"}
                  /\ report'[t][Chat(t)] \in {"-", "off"}
                  /\ processed' = processed
          /\ \A c \in Chats : report[t][c] = "off" => report'[t][c] = "off"]_vars
  /\ [][\A m \in processed' \ processed :
          \E t \in Threads : SigOf(t) = m[2] /\ report[t][m[1]] = "sent"]_vars

\* An invocation skipped a chat for its alerts setting and wrote no marker;
\* a later invocation for the same signature delivered to that chat.
C25_DeliveredAfterReenabled ==
  \E t, u \in Threads, c \in Chats :
    /\ report[t][c] = "off"
    /\ t \in doneBefore[u]
    /\ SigOf(u) = SigOf(t)
    /\ report[u][c] \in Succeeded


\* ------------------------------------------------------------------------
\* Properties of the classification (SpecParse), continued
\* ------------------------------------------------------------------------

\* The generic-token mints of the event family.
GenericMints == {"T1", "T2"}

\* The net delta of the tracked address in one mint, over all the transfer
\* entries of the event.
NetDelta(ev, a, mint) == SumMint(ev.tokenTransfers, a, {mint})

\* The mints among the entries of a token list.
MintsOf(tokens) == {tokens[i].mint : i \in DOMAIN tokens}

\* C26: the generic-token deltas of the tracked address are summed per mint
\* before classification: the received tokens are the mints of positive net
\* delta and the sent tokens those of negative net delta, so an event whose
\* generic mints all net to zero yields no trade.
C26_SummedPerMint ==
  \A t \in Threads :
    (Parsed(t) /\ Good(tx[t]))
      => LET tokens == WhaleMovements(tx[t], wa[t]).tokens
         IN /\ MintsOf(ReceivedTokens(tokens))
                 = {m \in GenericMints : NetDelta(tx[t], wa[t], m) > 0}
            /\ MintsOf(SentTokens(tokens))
                 = {m \in GenericMints : NetDelta(tx[t], wa[t], m) < 0}
            /\ (\A m \in GenericMints : NetDelta(tx[t], wa[t], m) = 0)
                 => trade[t] = NoTrade

\* 500 of a token received and 500 of the same token sent, with a
\* stablecoin payment: reported as a buy of 500.
C26_RoundTripReportedAsBuy ==
  \E t \in Threads :
    /\ Parsed(t)
    /\ \A m \in GenericMints : NetDelta(tx[t], wa[t], m) = 0
    /\ MintsOf(ReceivedTokens(WhaleMovements(tx[t], wa[t]).tokens)) = {"T1"}
    /\ trade[t] # NoTrade
    /\ trade[t].type = "BUY"
    /\ trade[t].token_amount = 500


\* The balance changes accountData gives for the address.
AccountChanges(ev, a) ==
  {ev.accountData[i].change :
     i \in {j \in DOMAIN ev.accountData : ev.accountData[j].account = a}}

\* C27: when the native delta summed from the explicit transfers has a
\* magnitude of at least the dust threshold it is the native delta used,
\* whatever accountData says, and it is the payment amount of a trade paid
\* in native coin; when the delta used is not the explicit one it is an
\* accountData value of the address with a magnitude of at least the
\* threshold.
C27_FallbackNotOverride ==
  \A t \in Threads :
    Parsed(t)
      => LET ex == ExplicitSol(tx[t], wa[t])
             used == NativeDelta(tx[t], wa[t])
         IN /\ Abs(ex) >= DUST_THRESHOLD_SOL
                 => /\ used = ex
                    /\ (trade[t] # NoTrade /\ trade[t].input_asset = "SOL")
                         => trade[t].input_amount = Abs(ex)
            /\ used # ex
                 => /\ used \in AccountChanges(tx[t], wa[t])
                    /\ Abs(used) >= DUST_THRESHOLD_SOL

\* The explicit native delta is exactly the threshold (0.01 spent) while
\* accountData says 3.1 spent: the trade is paid with 0.01.
C27_ExplicitAtThresholdKept ==
  \E t \in Threads :
    /\ Parsed(t)
    /\ ExplicitSol(tx[t], wa[t]) = -DUST_THRESHOLD_SOL
    /\ -3100000 \in AccountChanges(tx[t], wa[t])
    /\ trade[t] # NoTrade
    /\ trade[t].input_asset = "SOL"
    /\ trade[t].input_amount = DUST_THRESHOLD_SOL


\* ------------------------------------------------------------------------
\* Properties of the registry and settings commands (SpecChats)
\* ------------------------------------------------------------------------

\* The step is a registry, settings or marker operation issued for chat c.
OperationFor(c) ==
  \/ \E a \in Tracked : AddWhale(c, a) \/ RemoveWhale(c, a)
  \/ \E a \in Tracked, b \in BOOLEAN : SetWhaleActive(c, a, b)
  \/ PauseAll(c)
  \/ ResumeAll(c)
  \/ \E b \in BOOLEAN : SetAlertsEnabled(c, b)
  \/ \E t \in Threads : pc[t] = "mark" /\ Chat(t) = c /\ MarkTxProcessed(t)

\* The markers stored for chat d.
MarkersOf(set, d) == {m \in set : m[1] = d}

\* C28: every registry, settings or marker operation issued for a chat
\* leaves the bindings, the alerts setting and the markers of every other
\* chat unchanged.
C28_PerChatIsolation ==
  [][\A c \in Chats :
       OperationFor(c)
         => \A d \in Chats \ {c} :
              /\ whales'[d] = whales[d]
              /\ alerts'[d] = alerts[d]
              /\ MarkersOf(processed', d) = MarkersOf(processed, d)]_vars

\* Chat 1 has its marker for a signature and has paused the whale; a later
\* invocation for the same signature, which did not read chat 1, delivered
\* to chat 2.
C28_OtherChatStillAlerted ==
  \E t, u \in Threads :
    /\ report[t][1] = "written"
    /\ whales[1][W] = "paused"
    /\ t \in doneBefore[u]
    /\ SigOf(u) = SigOf(t)
    /\ 1 \notin Range(entries[u])
    /\ report[u][2] \in Succeeded


\* ------------------------------------------------------------------------
\* Properties of the rate limiter in the delivery (Spec)
\* ------------------------------------------------------------------------

\* The invocations whose send is in flight.
InFlight == {t \in Threads : pc[t] = "sending"}

Started == {t \in Threads : pc[t] = "idle" /\ pc'[t] # "idle"}

\* The known whales among the addresses of a transaction.
Matched(ev) == AllAddresses(ev) \cap knownWhales

\* C30: a thread is started for a pushed transaction only with an address
\* of that transaction that is in the known-whale set, so with an empty set
\* none is started; and a push that matches starts exactly one thread, for
\* one matched address, however many known whales the transaction holds.
C30_DispatchOnlyKnownOnce ==
  [][/\ \A t \in Started : wa'[t] \in Matched(tx'[t])
     /\ Cardinality(Started) <= 1
     /\ \A ev \in Feed :
          (Receive(ev) /\ Matched(ev) # {})
            => \E t \in Started : tx'[t] = ev /\ wa'[t] \in Matched(ev)]_vars

\* Two known whales appear in one pushed transaction, and one thread was
\* started for it, with the counterparty as the matched address.
C30_TwoKnownOneDispatch ==
  \E t \in Threads :
    /\ pc[t] = "lookup"
    /\ wa[t] = X
    /\ {W, X} \subseteq Matched(tx[t])
    /\ \A u \in Threads \ {t} : pc[u] = "idle"

====
